---------------------------- MODULE Spec2Model ----------------------------
(***************************************************************************)
(* A model of the STUN byte/bit helpers (src/src/stun_helpers/stun.ts) and *)
(* of the STUNType container (src/src/stun_data_type/stun.type.ts).        *)
(*                                                                         *)
(* JavaScript values are tagged records [t |-> <type>, v |-> <payload>];   *)
(* a Buffer's payload is its sequence of bytes.  The outcome of a call is  *)
(* [kind |-> "return", value |-> ...] or [kind |-> "throw", error |-> ...].*)
(* Numbers are kept inside the 32-bit range, where ToInt32 is the identity *)
(* and ToUint32 adds 2^32 to a negative number.                            *)
(***************************************************************************)
EXTENDS Integers, Sequences, FiniteSets, TLC

VARIABLES input, outcome, heap, pin, last, obj, supplied

vars == <<input, outcome, heap, pin, last, obj, supplied>>

---------------------------------------------------------------------------
(* Bounds of the model.                                                    *)

\* _int2Buf16 is applied to every integer of -IntBound..IntBound.
IntBound == 66000

\* Buffers handed to _getBit and _compareBuf hold at most MaxLen bytes.
MaxLen == 2

\* A run of calls holds at most MaxHeap Buffers: the caller's one and those
\* _int2Buf16 returned.
MaxHeap == 3

\* _getBit is applied to the bit offsets -1..9 and 30..MaxOff: around the 8
\* bits of a byte and around 32, where the shift count of << wraps.
MaxOff == 33

---------------------------------------------------------------------------
(* JavaScript values and call outcomes.                                    *)

Null == [t |-> "null"]

Undefined == [t |-> "undefined"]

Num(n) == [t |-> "number", v |-> n]

Str(s) == [t |-> "string", v |-> s]

Arr(s) == [t |-> "array", v |-> s]

Buf(bytes) == [t |-> "buffer", v |-> bytes]

NotCalled == [kind |-> "pending"]

Return(v) == [kind |-> "return", value |-> v]

Throw(e) == [kind |-> "throw", error |-> e]

Returned == outcome.kind = "return"

Threw == outcome.kind = "throw"

---------------------------------------------------------------------------
(* Integer operators of JavaScript, on 32-bit operands.                    *)

Pow2(n) == 2 ^ n

\* x & y.  \div rounds down and % is non-negative, so a negative operand
\* yields the bits of its two's complement representation.
RECURSIVE BitAnd(_, _)
BitAnd(x, y) ==
    IF x = 0 \/ y = 0 THEN 0
    ELSE IF x = -1 /\ y = -1 THEN -1
    ELSE (x % 2) * (y % 2) + 2 * BitAnd(x \div 2, y \div 2)

\* x >>> n for 1 <= n <= 31: ToUint32(x) shifted right, zero filled.
UShr(x, n) ==
    IF x >= 0 THEN x \div Pow2(n)
    ELSE (x \div Pow2(n)) + Pow2(32 - n)

\* ToInt32(2 * x) for a 32-bit x: bit 30 of x becomes the sign bit.
Double32(x) ==
    2 * (x % Pow2(30)) + ((x \div Pow2(30)) % 2) * (-Pow2(30) - Pow2(30))

\* x << n: the shift count is ToUint32(n) & 31, the result is wrapped to
\* 32 bits.
RECURSIVE ShlCount(_, _)
ShlCount(x, c) == IF c = 0 THEN x ELSE ShlCount(Double32(x), c - 1)

Shl(x, n) == ShlCount(x, BitAnd(n, 31))

\* The conversion applied when a number is stored into a Buffer element.
ToUint8(x) == x % 256

\* Buffer.alloc(n): n zero bytes.
BufferAlloc(n) == [i \in 1..n |-> 0]

---------------------------------------------------------------------------
(* STUNHelpers._int2Buf16                                                  *)

\* A byte-order slip: the low byte is stored first.
_int2Buf16_LittleEndian(int) ==
    LET buf0 == BufferAlloc(2)
        buf1 == [buf0 EXCEPT ![1] = ToUint8(BitAnd(255, int))]
        buf2 == [buf1 EXCEPT ![2] = ToUint8(BitAnd(255, UShr(int, 8)))]
    IN  Return(Buf(buf2))

\* A range-checked store, as Buffer.writeUInt16BE does it.
_int2Buf16_RangeChecked(int) ==
    IF int \notin 0..65535 THEN Throw("RangeError")
    ELSE Return(Buf(<<int \div 256, int % 256>>))

\* buf = Buffer.alloc(2); buf[0] = 0xFF & (int >>> 8); buf[1] = 0xFF & int;
\* return buf.  Index i of a Buffer is position i + 1 of its sequence.
_int2Buf16(int) ==
    LET buf0 == BufferAlloc(2)
        buf1 == [buf0 EXCEPT ![1] = ToUint8(BitAnd(255, UShr(int, 8)))]
        buf2 == [buf1 EXCEPT ![2] = ToUint8(BitAnd(255, int))]
    IN  Return(Buf(buf2))

\* The integers _int2Buf16 is applied to: -bound..bound, a range around
\* [0, 65535], and the ends of the 32-bit range.
Int16Inputs(bound) ==
    (-bound .. bound)
        \cup {2147483647, 2147483646, 2147418112, -2147483647, -2147483647 - 1}

Idle ==
    /\ heap = << >>
    /\ pin = NotCalled
    /\ last = NotCalled
    /\ obj = Null
    /\ supplied = Null

InitInt16 ==
    /\ input \in {[op |-> "_int2Buf16", int |-> v] : v \in Int16Inputs(IntBound)}
    /\ outcome = NotCalled
    /\ Idle

CallInt2Buf16 ==
    /\ input.op = "_int2Buf16"
    /\ outcome = NotCalled
    /\ outcome' = _int2Buf16(input.int)
    /\ UNCHANGED <<input, heap, pin, last, obj, supplied>>

NextInt16 == CallInt2Buf16

SpecInt16 == InitInt16 /\ [][NextInt16]_vars

\* C1: for every v in [0, 65535], _int2Buf16(v) is a Buffer of exactly two
\* bytes b with b[0] * 256 + b[1] = v (b[0] the high byte, b[1] the low one).
C1_BigEndianRoundTrip ==
    (outcome # NotCalled /\ input.op = "_int2Buf16" /\ input.int \in 0..65535) =>
        /\ Returned
        /\ outcome.value.t = "buffer"
        /\ Len(outcome.value.v) = 2
        /\ \A i \in 1..2 : outcome.value.v[i] \in 0..255
        /\ outcome.value.v[1] * 256 + outcome.value.v[2] = input.int

C1_Witness ==
    /\ Returned
    /\ input.op = "_int2Buf16"
    /\ input.int = 448
    /\ outcome.value.v = <<1, 192>>

\* C2: for every integer v outside [0, 65535], negative ones included,
\* _int2Buf16(v) returns normally, and returns the two bytes of the
\* non-negative residue v mod 65536: high byte first, low byte second.
C2_WrapsModulo65536 ==
    (outcome # NotCalled /\ input.op = "_int2Buf16" /\ input.int \notin 0..65535) =>
        /\ Returned
        /\ outcome.value.t = "buffer"
        /\ outcome.value.v =
             <<(input.int % 65536) \div 256, (input.int % 65536) % 256>>

C2_Witness ==
    /\ Returned
    /\ input.op = "_int2Buf16"
    /\ input.int = -2
    /\ outcome.value.v = <<255, 254>>

---------------------------------------------------------------------------
(* STUNHelpers._getBit                                                     *)

\* buffer[idx]: the byte at an index inside the Buffer, undefined elsewhere.
BufferGet(buffer, idx) ==
    IF idx \in 0 .. Len(buffer) - 1 THEN Num(buffer[idx + 1]) ELSE Undefined

\* ToInt32 of an operand of &: undefined converts to 0.
ToInt32(x) == IF x.t = "number" THEN x.v ELSE 0

\* Bit numbering from the most significant bit.
_getBit_BigEndianBits(buffer, idx, off) ==
    LET mask0 == BufferAlloc(1)
        mask1 == [mask0 EXCEPT ![1] = ToUint8(128)]
        count == BitAnd(off, 31)
        mask2 == [mask1 EXCEPT ![1] =
                    IF count >= 8 THEN 0 ELSE ToUint8(mask1[1] \div Pow2(count))]
    IN  Return(Num(IF BitAnd(ToInt32(BufferGet(buffer, idx)), mask2[1]) # 0
                   THEN 1 ELSE 0))

\* mask = Buffer.alloc(1); mask[0] = 0x01; mask[0] <<= off;
\* return (buffer[idx] & mask[0]) !== 0 ? 1 : 0.
_getBit(buffer, idx, off) ==
    LET mask0 == BufferAlloc(1)
        mask1 == [mask0 EXCEPT ![1] = ToUint8(1)]
        mask2 == [mask1 EXCEPT ![1] = ToUint8(Shl(mask1[1], off))]
    IN  Return(Num(IF BitAnd(ToInt32(BufferGet(buffer, idx)), mask2[1]) # 0
                   THEN 1 ELSE 0))

Byte == 0..255

\* Byte sequences of length k with one byte of any value, the others 0 or 255.
BuffersOfLen(k) ==
    {[s EXCEPT ![i] = x] : s \in [1..k -> {0, 255}], i \in 1..k, x \in Byte}

GetBitBuffers(maxLen) == {<< >>} \cup UNION {BuffersOfLen(k) : k \in 1..maxLen}

GetBitOffsets(maxOff) == (-1 .. 9) \cup (30 .. maxOff)

InitGetBit ==
    /\ input \in {[op |-> "_getBit", buffer |-> s, idx |-> i, off |-> o] :
                    s \in GetBitBuffers(MaxLen), i \in -1 .. MaxLen, o \in GetBitOffsets(MaxOff)}
    /\ outcome = NotCalled
    /\ Idle

CallGetBit ==
    /\ input.op = "_getBit"
    /\ outcome = NotCalled
    /\ outcome' = _getBit(input.buffer, input.idx, input.off)
    /\ UNCHANGED <<input, heap, pin, last, obj, supplied>>

NextGetBit == CallGetBit

SpecGetBit == InitGetBit /\ [][NextGetBit]_vars

IdxInRange == input.idx \in 0 .. Len(input.buffer) - 1

\* C3: for every byte sequence s, byteIndex < length(s) and bitOffset in
\* [0, 7], _getBit returns 0 or 1, and returns 1 exactly when bit bitOffset
\* of s[byteIndex] is set, bit 0 being the least significant:
\* floor(s[byteIndex] / 2^bitOffset) mod 2.
C3_GetBitReadsLsbFirst ==
    (outcome # NotCalled /\ input.op = "_getBit" /\ IdxInRange /\ input.off \in 0..7) =>
        /\ Returned
        /\ outcome.value.t = "number"
        /\ outcome.value.v \in {0, 1}
        /\ outcome.value.v =
             (input.buffer[input.idx + 1] \div Pow2(input.off)) % 2

C3_Witness ==
    /\ Returned
    /\ input.op = "_getBit"
    /\ input.buffer = <<255, 8>>
    /\ input.idx = 1
    /\ input.off = 3
    /\ outcome.value = Num(1)

\* C4: _getBit with byteIndex >= the length of the sequence ends in an
\* out-of-bounds error; it does not return 0 or 1.
C4_OutOfBoundsIndexFails ==
    (outcome # NotCalled /\ input.op = "_getBit"
        /\ input.idx >= Len(input.buffer)) => Threw

\* C10: _getBit with a bitOffset outside [0, 7] on an in-range byteIndex
\* ends in a bounds error; it never returns 0 or 1.
C10_OutOfRangeOffsetFails ==
    (outcome # NotCalled /\ input.op = "_getBit" /\ IdxInRange
        /\ input.off \notin 0..7) => Threw

---------------------------------------------------------------------------
(* STUNHelpers._compareBuf                                                 *)

Bool(b) == [t |-> "boolean", v |-> b]

\* Buffer.isBuffer(x)
IsBuffer(x) == x.t = "buffer"

\* x.length as an outcome: reading a property of null or undefined throws a
\* TypeError, a number has no length, sequences have their length.
GetLength(x) ==
    IF x.t \in {"null", "undefined"} THEN Throw("TypeError")
    ELSE IF x.t \in {"buffer", "string", "array"} THEN Return(Num(Len(x.v)))
    ELSE Return(Undefined)

\* x[i] for a value whose property read does not throw.
GetIndex(x, i) ==
    IF x.t = "buffer" THEN BufferGet(x.v, i)
    ELSE IF x.t = "string" /\ i \in 0 .. Len(x.v) - 1 THEN Str(<<x.v[i + 1]>>)
    ELSE IF x.t = "array" /\ i \in 0 .. Len(x.v) - 1 THEN x.v[i + 1]
    ELSE Undefined

\* x === y on undefined, numbers and strings.
StrictEq(x, y) == x.t = y.t /\ (x.t = "undefined" \/ x.v = y.v)

\* i < n, false when n is undefined (NaN)
LessThan(i, n) == n.t = "number" /\ i < n.v

\* for (let i = 0; i < a.length; i += 1) { if (a[i] !== b[i]) return false }
\* return true, entered at index i.
RECURSIVE CompareLoop(_, _, _)
CompareLoop(a, b, i) ==
    IF ~LessThan(i, GetLength(a).value) THEN Return(Bool(TRUE))
    ELSE IF ~StrictEq(GetIndex(a, i), GetIndex(b, i)) THEN Return(Bool(FALSE))
    ELSE CompareLoop(a, b, i + 1)

\* The function without its Buffer.isBuffer guard.
_compareBuf_NoTypeCheck(a, b) ==
    IF GetLength(a).kind = "throw" THEN GetLength(a)
    ELSE IF GetLength(b).kind = "throw" THEN GetLength(b)
    ELSE IF ~StrictEq(GetLength(a).value, GetLength(b).value) THEN Return(Bool(FALSE))
    ELSE CompareLoop(a, b, 0)

\* The function without its length comparison.
_compareBuf_NoLengthCheck(a, b) ==
    IF ~IsBuffer(a) \/ ~IsBuffer(b) THEN Return(Bool(FALSE))
    ELSE CompareLoop(a, b, 0)

\* if (!Buffer.isBuffer(a) || !Buffer.isBuffer(b)) return false;
\* if (a.length !== b.length) return false; the loop; return true.
_compareBuf(a, b) ==
    IF ~IsBuffer(a) \/ ~IsBuffer(b) THEN Return(Bool(FALSE))
    ELSE IF ~StrictEq(GetLength(a).value, GetLength(b).value) THEN Return(Bool(FALSE))
    ELSE CompareLoop(a, b, 0)

\* Buffers of at most maxLen bytes over 0, 1 and 255.
CompareBuffers(maxLen) ==
    UNION {{Buf(s) : s \in [1..k -> {0, 1, 255}]} : k \in 0..maxLen}

\* Arguments that are no Buffer: absent values, a number, strings, arrays.
NonBuffers ==
    {Null, Undefined, Num(0), Str(<< >>), Str(<<"0">>), Arr(<< >>), Arr(<<Num(0)>>)}

CompareValues(maxLen) == CompareBuffers(maxLen) \cup NonBuffers

InitCompare ==
    /\ input \in {[op |-> "_compareBuf", a |-> x, b |-> y] :
                    x \in CompareValues(MaxLen), y \in CompareValues(MaxLen)}
    /\ outcome = NotCalled
    /\ Idle

CallCompareBuf ==
    /\ input.op = "_compareBuf"
    /\ outcome = NotCalled
    /\ outcome' = _compareBuf(input.a, input.b)
    /\ UNCHANGED <<input, heap, pin, last, obj, supplied>>

NextCompare == CallCompareBuf

SpecCompare == InitCompare /\ [][NextCompare]_vars

\* Both arguments are byte sequences of the same length with equal bytes at
\* every index.
SameBytes(a, b) ==
    /\ a.t = "buffer"
    /\ b.t = "buffer"
    /\ Len(a.v) = Len(b.v)
    /\ \A i \in 1 .. Len(a.v) : a.v[i] = b.v[i]

\* C5: _compareBuf(a, b) returns true if and only if a and b are both byte
\* sequences of the same length with a[i] = b[i] at every index; in every
\* other case it returns false.
C5_CompareIsContentEquality ==
    (outcome # NotCalled /\ input.op = "_compareBuf") =>
        /\ Returned
        /\ outcome.value.t = "boolean"
        /\ outcome.value.v = SameBytes(input.a, input.b)

C5_Witness ==
    /\ Returned
    /\ input.op = "_compareBuf"
    /\ input.a = Buf(<<1, 255>>)
    /\ input.b = Buf(<<1, 255>>)
    /\ outcome.value = Bool(TRUE)

\* C6: _compareBuf never ends in an error: whenever at least one argument is
\* not a byte sequence, the call completes normally with the result false.
C6_NonBufferGivesFalse ==
    (outcome # NotCalled /\ input.op = "_compareBuf"
        /\ (input.a.t # "buffer" \/ input.b.t # "buffer")) =>
        /\ Returned
        /\ outcome.value = Bool(FALSE)

C6_Witness ==
    /\ Returned
    /\ input.op = "_compareBuf"
    /\ input.a = Null
    /\ input.b = Buf(<< >>)
    /\ outcome.value = Bool(FALSE)

---------------------------------------------------------------------------
(* _ipv4Str2Buf32 (stun.ts, in the block comment that closes the file).    *)
(* A string is its sequence of characters.                                 *)

\* An address has at most MaxParts dot-separated components in the model.
MaxParts == 5

NaN == [t |-> "NaN"]

Digits == {"0", "1", "2", "3", "4", "5", "6", "7", "8", "9"}

DigitVal(c) ==
    CASE c = "0" -> 0 [] c = "1" -> 1 [] c = "2" -> 2 [] c = "3" -> 3
      [] c = "4" -> 4 [] c = "5" -> 5 [] c = "6" -> 6 [] c = "7" -> 7
      [] c = "8" -> 8 [] c = "9" -> 9

\* str.split(sep) for a one-character separator: the pieces between the
\* separators, empty pieces included.
RECURSIVE SplitFrom(_, _, _)
SplitFrom(str, sep, piece) ==
    IF str = << >> THEN <<piece>>
    ELSE IF Head(str) = sep THEN <<piece>> \o SplitFrom(Tail(str), sep, << >>)
    ELSE SplitFrom(Tail(str), sep, Append(piece, Head(str)))

Split(str, sep) == SplitFrom(str, sep, << >>)

RECURSIVE SkipSpaces(_)
SkipSpaces(str) ==
    IF str # << >> /\ Head(str) = " " THEN SkipSpaces(Tail(str)) ELSE str

\* The value of the longest prefix of decimal digits, acc being the value of
\* the digits read so far.
RECURSIVE DigitsPrefix(_, _)
DigitsPrefix(str, acc) ==
    IF str # << >> /\ Head(str) \in Digits
    THEN DigitsPrefix(Tail(str), 10 * acc + DigitVal(Head(str)))
    ELSE acc

\* parseInt(n, 10): leading white space is skipped, a sign is taken, the
\* longest prefix of digits is read and what follows it is ignored; NaN when
\* there is no digit.
ParseInt10(n) ==
    LET t == SkipSpaces(n)
        signed == t # << >> /\ Head(t) \in {"+", "-"}
        body == IF signed THEN Tail(t) ELSE t
        sign == IF signed /\ Head(t) = "-" THEN -1 ELSE 1
    IN  IF body = << >> \/ Head(body) \notin Digits THEN NaN
        ELSE Num(sign * DigitsPrefix(body, 0))

\* Buffer.from(array): every element is stored as a byte, NaN as 0.
BufferFromArray(arr) ==
    [i \in 1 .. Len(arr) |-> IF arr[i].t = "number" THEN ToUint8(arr[i].v) ELSE 0]

\* return Buffer.from(str.split(".").map((n) => parseInt(n, 10)))
_ipv4Str2Buf32(str) ==
    LET parts == Split(str, ".")
        nums == [i \in 1 .. Len(parts) |-> ParseInt10(parts[i])]
    IN  Return(Buf(BufferFromArray(nums)))

\* The components the addresses of the model are made of.
Components ==
    {<< >>, <<"1">>, <<"2", "5", "5">>, <<"2", "5", "6">>, <<"x">>, <<"-", "1">>,
     <<"1", "x">>}

RECURSIVE Join(_)
Join(parts) ==
    IF Len(parts) = 1 THEN parts[1]
    ELSE parts[1] \o <<".">> \o Join(Tail(parts))

\* The strings of at most maxParts components joined by dots.
Ipv4Strings(maxParts) ==
    UNION {{Join(ps) : ps \in [1..k -> Components]} : k \in 1..maxParts}

InitIpv4 ==
    /\ input \in {[op |-> "_ipv4Str2Buf32", str |-> s] : s \in Ipv4Strings(MaxParts)}
    /\ outcome = NotCalled
    /\ Idle

CallIpv4Str2Buf32 ==
    /\ input.op = "_ipv4Str2Buf32"
    /\ outcome = NotCalled
    /\ outcome' = _ipv4Str2Buf32(input.str)
    /\ UNCHANGED <<input, heap, pin, last, obj, supplied>>

NextIpv4 == CallIpv4Str2Buf32

SpecIpv4 == InitIpv4 /\ [][NextIpv4]_vars

\* A component is numeric: one or more decimal digits and nothing else.
IsDecimal(c) == c # << >> /\ \A i \in 1 .. Len(c) : c[i] \in Digits

\* Exactly four numeric components, each in [0, 255].
WellFormedIpv4(str) ==
    LET parts == Split(str, ".")
    IN  /\ Len(parts) = 4
        /\ \A i \in 1..4 : IsDecimal(parts[i]) /\ DigitsPrefix(parts[i], 0) \in 0..255

\* C7: _ipv4Str2Buf32 fails with a format error, and produces no byte
\* sequence, for every string that does not split on "." into exactly 4
\* components or that has a component which is non-numeric or outside
\* [0, 255]; for 4 in-range decimal components it returns exactly those 4
\* bytes in order.
C7_Ipv4RejectsMalformed ==
    (outcome # NotCalled /\ input.op = "_ipv4Str2Buf32") =>
        IF WellFormedIpv4(input.str)
        THEN /\ Returned
             /\ outcome.value =
                  Buf([i \in 1..4 |-> DigitsPrefix(Split(input.str, ".")[i], 0)])
        ELSE Threw

---------------------------------------------------------------------------
(* class STUNType                                                          *)

Fields == {"type", "bin", "f"}

\* The i-th parameter of constructor(type = null, bin = null, f = null): the
\* default applies when the argument is missing or undefined.
ParamNoDefault(args, i) ==
    IF i <= Len(args) THEN args[i] ELSE Undefined

Param(args, i) ==
    IF i <= Len(args) /\ args[i] # Undefined THEN args[i] ELSE Null

\* The constructor without its default values.
STUNType_NoDefaults(args) ==
    [fld \in Fields |->
        CASE fld = "type" -> ParamNoDefault(args, 1)
          [] fld = "bin" -> ParamNoDefault(args, 2)
          [] fld = "f" -> ParamNoDefault(args, 3)]

\* this.type = type; this.bin = bin; this.f = f
STUNType(args) ==
    [fld \in Fields |->
        CASE fld = "type" -> Param(args, 1)
          [] fld = "bin" -> Param(args, 2)
          [] fld = "f" -> Param(args, 3)]

\* instance.fld = v
SetField(instance, fld, v) == [instance EXCEPT ![fld] = v]

FieldValues == {Null, Undefined, Num(1), Str(<<"a">>), Buf(<<1>>)}

Never == [t |-> "never"]

\* The value an argument list supplies for the i-th parameter, if any.
SuppliedBy(args, i) ==
    IF i <= Len(args) /\ args[i] # Undefined THEN args[i] ELSE Never

InitType ==
    /\ obj = Null
    /\ supplied = Null
    /\ input = NotCalled
    /\ outcome = NotCalled
    /\ heap = << >>
    /\ pin = NotCalled
    /\ last = NotCalled

\* new STUNType(...args), with zero to three arguments
NewSTUNType ==
    \E k \in 0..3 : \E args \in [1..k -> FieldValues] :
        /\ obj' = STUNType(args)
        /\ supplied' = [fld \in Fields |->
                          CASE fld = "type" -> SuppliedBy(args, 1)
                            [] fld = "bin" -> SuppliedBy(args, 2)
                            [] fld = "f" -> SuppliedBy(args, 3)]
        /\ last' = [op |-> "new", args |-> args]
        /\ UNCHANGED <<input, outcome, heap, pin>>

\* obj.fld = v, by the code that holds the instance
AssignField ==
    \E fld \in Fields : \E v \in FieldValues :
        /\ obj # Null
        /\ obj' = SetField(obj, fld, v)
        /\ supplied' = [supplied EXCEPT ![fld] = v]
        /\ last' = [op |-> "set", field |-> fld, value |-> v]
        /\ UNCHANGED <<input, outcome, heap, pin>>

NextType == NewSTUNType \/ AssignField

SpecType == InitType /\ [][NextType]_vars

\* C9: each of the three fields of a STUNType holds the value most recently
\* supplied for it by the constructor or by direct assignment, and null if
\* no value was ever supplied for it; so constructing with fewer than three
\* arguments or assigning one field leaves the other fields as they were.
C9_FieldsHoldLastSupplied ==
    obj # Null =>
        \A fld \in Fields :
            obj[fld] = IF supplied[fld] = Never THEN Null ELSE supplied[fld]

C9_Witness ==
    /\ obj # Null
    /\ last.op = "set"
    /\ last.field = "bin"
    /\ supplied["type"] = Never
    /\ obj["type"] = Null
    /\ obj["bin"] = Buf(<<1>>)
    /\ obj["f"] = Num(1)

---------------------------------------------------------------------------
(* Runs of calls on Buffers that are shared by reference.  heap[r] holds   *)
(* the bytes of the Buffer at address r; a call is passed addresses, and   *)
(* _int2Buf16 returns the address of the Buffer it allocated.              *)

Ref(r) == [t |-> "ref", v |-> r]

\* One Buffer kept at module level and handed out by every call.
AllocAddr_Shared(h) == IF Len(h) >= 2 THEN 2 ELSE Len(h) + 1

\* Buffer.alloc in _int2Buf16: a Buffer no earlier reference points to.
AllocAddr(h) == Len(h) + 1

\* The heap once the Buffer at address r holds bytes.
Store(h, r, bytes) ==
    IF r = Len(h) + 1 THEN Append(h, bytes) ELSE [h EXCEPT ![r] = bytes]

\* The caller's own Buffer, at address 1.
CallerBuffers == {<< >>, <<255>>, <<0, 255>>}

Init ==
    /\ heap \in {<<s>> : s \in CallerBuffers}
    /\ pin = NotCalled
    /\ last = NotCalled
    /\ input = NotCalled
    /\ outcome = NotCalled
    /\ obj = Null
    /\ supplied = Null

\* The call is the last one made; pin keeps one call of the run, chosen
\* freely, for later calls to be compared with.
Record(call) ==
    /\ last' = call
    /\ pin' \in IF pin = NotCalled THEN {pin, call} ELSE {pin}

RunInt2Buf16 ==
    \E int \in {255, 65280} :
        /\ Len(heap) < MaxHeap
        /\ heap' = Store(heap, AllocAddr(heap), _int2Buf16(int).value.v)
        /\ Record([op |-> "_int2Buf16", args |-> <<int>>, ret |-> Ref(AllocAddr(heap))])
        /\ UNCHANGED <<input, outcome, obj, supplied>>

RunGetBit ==
    \E r \in DOMAIN heap : \E idx \in 0..1 : \E off \in {0, 8} :
        /\ Record([op |-> "_getBit", args |-> <<r, idx, off>>,
                   ret |-> _getBit(heap[r], idx, off).value])
        /\ UNCHANGED <<heap, input, outcome, obj, supplied>>

RunCompareBuf ==
    \E a \in DOMAIN heap : \E b \in DOMAIN heap :
        /\ Record([op |-> "_compareBuf", args |-> <<a, b>>,
                   ret |-> _compareBuf(Buf(heap[a]), Buf(heap[b])).value])
        /\ UNCHANGED <<heap, input, outcome, obj, supplied>>

Next == RunInt2Buf16 \/ RunGetBit \/ RunCompareBuf

Spec == Init /\ [][Next]_vars

\* What a recorded call returned: the bytes now held by the Buffer it
\* returned, or the number or boolean it returned.
ResultOf(call) ==
    IF call.ret.t = "ref" THEN Buf(heap[call.ret.v]) ELSE call.ret

\* Every Buffer keeps its length and its bytes over a step.
BuffersKept ==
    \A r \in DOMAIN heap : r \in DOMAIN heap' /\ heap'[r] = heap[r]

\* The last call agrees with the kept call when their arguments are the same.
SameArgsSameResult ==
    (pin # NotCalled /\ last.op = pin.op /\ last.args = pin.args) =>
        ResultOf(last) = ResultOf(pin)

\* C8: over any sequence of calls of _int2Buf16, _getBit and _compareBuf,
\* every byte sequence keeps its length and contents, and a call's result is
\* determined by its arguments alone: the same arguments give the same
\* result whatever calls came in between.
C8_CallsArePure == [][BuffersKept]_vars /\ []SameArgsSameResult

C8_Witness ==
    /\ pin # NotCalled
    /\ pin.op = "_int2Buf16"
    /\ pin.args = <<255>>
    /\ pin.ret = Ref(2)
    /\ last.op = "_int2Buf16"
    /\ last.args = pin.args
    /\ last.ret = Ref(3)
    /\ heap = <<<<0, 255>>, <<0, 255>>, <<0, 255>>>>

=============================================================================
